---- MODULE Spec2Model ----
(***************************************************************************)
(* Model of the notebook "LLM 04a - Fine-tuning LLMs".                     *)
(*                                                                         *)
(* The notebook is one linear script: its commands run top to bottom and   *)
(* an uncaught exception stops the run.  The state is the notebook's       *)
(* global namespace (nb), the process environment (environ), the cluster   *)
(* configuration (sparkVersion), the files written (fs) and the position   *)
(* of the run (pc).  Library objects (tokenizer, model, trainer, dataset)  *)
(* are records that carry the arguments they were built from; library      *)
(* calls are modelled by their documented contract on those records.       *)
(* done, raised, applyCalls, argsBuilt and trainersBuilt are history       *)
(* variables: they record what ran and what was handed to the libraries.   *)
(***************************************************************************)
EXTENDS Integers, Sequences, FiniteSets, TLC

VARIABLES sparkVersion, environ, pc, raised, done, nb, fs,
          applyCalls, argsBuilt, trainersBuilt, displayed

vars == <<sparkVersion, environ, pc, raised, done, nb, fs,
          applyCalls, argsBuilt, trainersBuilt, displayed>>

----------------------------------------------------------------------------
(* Bounds of the explored inputs *)

MaxVerLen == 4
MaxRows == 3
MapBatchSize == 2

----------------------------------------------------------------------------
(* Values shared by the library objects *)

None == [none |-> TRUE]
Unset == "<unset>"

Min(a, b) == IF a <= b THEN a ELSE b

RECURSIVE SeqsUpTo(_, _)
SeqsUpTo(S, n) ==
  IF n = 0 THEN {<<>>}
  ELSE LET shorter == SeqsUpTo(S, n - 1)
       IN shorter \cup {Append(s, e) : s \in {t \in shorter : Len(t) = n - 1}, e \in S}

(* Cluster runtime version strings, as sequences of characters *)
VersionChars == {"g", "p", "u"}
VersionStrings == SeqsUpTo(VersionChars, MaxVerLen)

(* Python's `sub in s` on strings: s has sub as a contiguous substring *)
StrContains(sub, s) ==
  \E i \in 1..(Len(s) - Len(sub) + 1) : SubSeq(s, i, i + Len(sub) - 1) = sub

(* The assertion with == in place of in *)
GpuRuntimeExact(version) == version = <<"g", "p", "u">>

(* line 34: "gpu" in spark.conf.get("...sparkVersion") *)
GpuRuntime(version) == StrContains(<<"g", "p", "u">>, version)

----------------------------------------------------------------------------
(* Paths are sequences of components *)

(* os.path.join(root, name) *)
PathJoin(root, name) == Append(root, name)

IsUnder(path, root) ==
  /\ Len(root) <= Len(path)
  /\ SubSeq(path, 1, Len(root)) = root

(* tempfile.TemporaryDirectory().name *)
TmpDirName == <<"tmp", "tmpdir">>

(* DA.paths.working_dir and DA.paths.datasets, bound by Classroom-Setup *)
WorkingDir == <<"dbfs", "working_dir">>
DatasetsDir == <<"dbfs", "datasets">>

----------------------------------------------------------------------------
(* The order with the first pass's model loaded before its training arguments *)
ProgramModelFirst == <<
  "gpu_assert", "classroom_setup", "tmpdir", "imports",
  "load_dataset", "model_checkpoint_1", "load_tokenizer_1", "map_1",
  "load_model_1", "training_args_1", "trainer_1", "tensorboard_1",
  "train_1", "save_model_1", "save_state_1", "save_final_1",
  "reload_1", "predict_1", "display_1",
  "environ", "zero_config",
  "load_tokenizer_2", "map_2", "load_model_2",
  "training_args_2", "trainer_2", "tensorboard_2",
  "train_2", "save_model_2", "save_state_2", "save_final_2",
  "reload_2", "predict_2", "display_2",
  "cleanup" >>

(* The order of the notebook's commands, top to bottom *)

Program == <<
  "gpu_assert", "classroom_setup", "tmpdir", "imports",
  "load_dataset", "model_checkpoint_1", "load_tokenizer_1", "map_1",
  "training_args_1", "load_model_1", "trainer_1", "tensorboard_1",
  "train_1", "save_model_1", "save_state_1", "save_final_1",
  "reload_1", "predict_1", "display_1",
  "environ", "zero_config",
  "load_tokenizer_2", "map_2", "load_model_2",
  "training_args_2", "trainer_2", "tensorboard_2",
  "train_2", "save_model_2", "save_state_2", "save_final_2",
  "reload_2", "predict_2", "display_2",
  "cleanup" >>

PosIn(prog, label) == CHOOSE i \in 1..Len(prog) : prog[i] = label

NextPc(label) ==
  LET i == PosIn(Program, label)
  IN IF i = Len(Program) THEN "end" ELSE Program[i + 1]

(* Commands that are plain assignments of literals and cannot raise *)
NonRaising == {"gpu_assert", "model_checkpoint_1", "tensorboard_1",
               "environ", "zero_config", "tensorboard_2"}

----------------------------------------------------------------------------
(* Notebook literals *)

(* The lookup with the two sentiments exchanged *)
imdb_label_lookup_swapped == (0 :> "positive") @@ (1 :> "negative") @@ (-1 :> "unknown")

(* line 173 *)
imdb_label_lookup == (0 :> "negative") @@ (1 :> "positive") @@ (-1 :> "unknown")

(* lines 276-287: the four first-pass reviews, named by their subject *)
reviews_literal == <<"despicable_me", "the_batman", "phantom_menace", "matrix_tigh">>

(* lines 448-451: the single DeepSpeed-pass review *)
review_literal == <<"matrix_tight">>

(* lines 340-362; 5e8 is written as an integer *)
ZeroConfigDict ==
  [zero_optimization |->
     [stage |-> 2,
      offload_optimizer |-> [device |-> "cpu", pin_memory |-> TRUE],
      allgather_partitions |-> TRUE,
      allgather_bucket_size |-> 500000000,
      overlap_comm |-> TRUE,
      reduce_scatter |-> TRUE,
      reduce_bucket_size |-> 500000000,
      contiguous_gradients |-> TRUE],
   optimizer |->
     [type |-> "AdamW",
      params |-> [lr |-> "auto", betas |-> "auto", eps |-> "auto",
                  weight_decay |-> "auto", torch_adam |-> TRUE]],
   train_batch_size |-> "auto"]

(* The setup with a rank outside the world *)
EnvironSetupRankOne(env) ==
  [env EXCEPT !.MASTER_ADDR = "localhost",
              !.MASTER_PORT = "9994",
              !.RANK = "1",
              !.LOCAL_RANK = "0",
              !.WORLD_SIZE = "1"]

(* lines 323-327 *)
EnvironSetup(env) ==
  [env EXCEPT !.MASTER_ADDR = "localhost",
              !.MASTER_PORT = "9994",
              !.RANK = "0",
              !.LOCAL_RANK = "0",
              !.WORLD_SIZE = "1"]

EnvNames == {"MASTER_ADDR", "MASTER_PORT", "RANK", "LOCAL_RANK", "WORLD_SIZE"}

(* Environments the cluster may hand to the notebook *)
EmptyEnv == [n \in EnvNames |-> Unset]
PresetEnv == [MASTER_ADDR |-> "10.0.0.1", MASTER_PORT |-> "29500",
              RANK |-> "1", LOCAL_RANK |-> "1", WORLD_SIZE |-> "2"]

(* int(s) for the decimal strings that occur as ranks and sizes *)
EnvInt(s) ==
  CASE s = "0" -> 0
    [] s = "1" -> 1
    [] s = "2" -> 2
    [] OTHER -> -1

----------------------------------------------------------------------------
(* The dataset library *)

SplitNames == <<"train", "test", "unsupervised">>

(* A split's rows, built from its labels; the text of a row is identified *)
(* by its split and position                                              *)
RowsOf(split, labels) ==
  [i \in 1..Len(labels) |-> [text |-> [split |-> split, row |-> i],
                             label |-> labels[i]]]

LabelSeqs(S) == {s \in SeqsUpTo(S, MaxRows) : Len(s) >= 1}

(* The label columns explored for the test and the unlabelled split *)
TestLabelSeqs == {<<0>>, <<0, 1>>}
UnsupervisedLabelSeqs == {<<-1>>, <<-1, -1>>}

(* load_dataset("imdb"): labelled train and test splits and an unlabelled *)
(* split whose label is -1                                                 *)
ImdbDatasets ==
  {[train |-> RowsOf("train", tr),
    test |-> RowsOf("test", te),
    unsupervised |-> RowsOf("unsupervised", un)] :
     tr \in LabelSeqs({0, 1}), te \in TestLabelSeqs, un \in UnsupervisedLabelSeqs}

(* The batches Dataset.map(batched=True) cuts a split into *)
Batches(rows, size) ==
  LET n == (Len(rows) + size - 1) \div size
  IN [b \in 1..n |-> SubSeq(rows, (b - 1) * size + 1, Min(b * size, Len(rows)))]

(* A batch as the dict of columns that a batched map function receives *)
AsColumns(rows) ==
  [c \in DOMAIN rows[1] |-> [i \in 1..Len(rows) |-> rows[i][c]]]

----------------------------------------------------------------------------
(* The tokenizer *)

(* AutoTokenizer.from_pretrained(checkpoint, cache_dir=...) *)
AutoTokenizer(checkpoint, cache_dir) ==
  [checkpoint |-> checkpoint, cache_dir |-> cache_dir]

(* The ids a tokenizer produces for one text: determined by the tokenizer *)
(* and the text                                                            *)
Encode(tok, text) == [vocab |-> tok.checkpoint, of |-> text]

(* tokenizer(text, return_tensors="pt", truncation=True, padding=True) *)
Tokenize(tok, text) ==
  [input_ids |-> [i \in 1..Len(text) |-> Encode(tok, text[i])],
   attention_mask |-> [i \in 1..Len(text) |-> [mask_of |-> text[i]]]]

(* tokenizer(text, text_target=..., ...): also returns the encoded targets *)
TokenizeWithTarget(tok, text, text_target) ==
  Tokenize(tok, text) @@
  [labels |-> [i \in 1..Len(text_target) |-> Encode(tok, text_target[i])]]

(* tokenizer.batch_decode(pred, skip_special_tokens=True) *)
BatchDecode(tok, sequences) ==
  [i \in 1..Len(sequences) |-> [decoded_with |-> tok.checkpoint,
                                sequence |-> sequences[i]]]

----------------------------------------------------------------------------
(* to_tokens and its closure apply, lines 150-170 *)

(* line 160: target_labels = [label_map[y] for y in x["label"]] *)
TargetLabels(label_map, x) ==
  [i \in 1..Len(x.label) |-> label_map[x.label[i]]]

(* lines 158-168: apply(x) *)
Apply(tok, label_map, x) ==
  TokenizeWithTarget(tok, x.text, TargetLabels(label_map, x))

(* lines 150-170: to_tokens returns apply closed over its two arguments *)
to_tokens(tok, label_map) == [tokenizer |-> tok, label_map |-> label_map]

(* A call of the closure that to_tokens returned *)
CallApply(function, x) == Apply(function.tokenizer, function.label_map, x)

(* What apply hands to the tokenizer for the batch x *)
ApplyCall(tok, label_map, x) ==
  [checkpoint |-> tok.checkpoint,
   label |-> x.label,
   text |-> x.text,
   text_target |-> TargetLabels(label_map, x)]

----------------------------------------------------------------------------
(* DatasetDict.map(function, batched=True, remove_columns=...) *)

(* One batch: the function's output columns are added to the columns that *)
(* are kept, one output row per element of the output columns             *)
MapBatch(rows, function, remove_columns) ==
  LET out == CallApply(function, AsColumns(rows))
      kept == DOMAIN rows[1] \ remove_columns
      n == Len(out.input_ids)
  IN [i \in 1..n |-> [c \in kept |-> rows[i][c]] @@ [c \in DOMAIN out |-> out[c][i]]]

RECURSIVE Flatten(_)
Flatten(ss) == IF ss = <<>> THEN <<>> ELSE Head(ss) \o Flatten(Tail(ss))

MapSplit(rows, function, remove_columns) ==
  LET bs == Batches(rows, MapBatchSize)
  IN Flatten([b \in 1..Len(bs) |-> MapBatch(bs[b], function, remove_columns)])

DatasetMap(ds, function, remove_columns) ==
  [s \in DOMAIN ds |-> MapSplit(ds[s], function, remove_columns)]

(* The calls of apply made by one map over the dataset, split by split *)
ApplyCallsOf(ds, function) ==
  Flatten([k \in 1..Len(SplitNames) |->
    LET bs == Batches(ds[SplitNames[k]], MapBatchSize)
    IN [b \in 1..Len(bs) |->
          ApplyCall(function.tokenizer, function.label_map, AsColumns(bs[b]))]])

(* The map with remove_columns=["text"] *)
TokenizedDatasetKeepLabel(ds, imdb_to_tokens) ==
  DatasetMap(ds, imdb_to_tokens, {"text"})

(* lines 178-180 and 372-374 *)
TokenizedDataset(ds, imdb_to_tokens) ==
  DatasetMap(ds, imdb_to_tokens, {"text", "label"})

----------------------------------------------------------------------------
(* Models, training arguments and the trainer *)

(* AutoModelForSeq2SeqLM.from_pretrained(checkpoint, cache_dir=...) *)
AutoModelFromHub(checkpoint, cache_dir) ==
  [checkpoint |-> checkpoint, loaded_from |-> <<"hub", checkpoint>>, trained |-> <<>>]

(* tr.TrainingArguments(output_dir, ...) *)
DefaultOptim == "<default>"

TrainingArguments(output_dir, epochs, batch_size, optim, report_to, deepspeed) ==
  [output_dir |-> output_dir,
   num_train_epochs |-> epochs,
   per_device_train_batch_size |-> batch_size,
   optim |-> optim,
   report_to |-> report_to,
   deepspeed |-> deepspeed]

(* lines 193-199 *)
TrainingArgs1(local_checkpoint_path) ==
  TrainingArguments(local_checkpoint_path, 1, 16, "adamw_torch", <<"tensorboard">>, None)

(* The DeepSpeed arguments without the deepspeed keyword *)
TrainingArgs2NoDeepspeed(checkpoint_location, zero_config) ==
  TrainingArguments(checkpoint_location, 3, 8, DefaultOptim, <<"tensorboard">>, None)

(* lines 397-403 *)
TrainingArgs2(checkpoint_location, zero_config) ==
  TrainingArguments(checkpoint_location, 3, 8, DefaultOptim, <<"tensorboard">>, zero_config)

(* tr.DataCollatorWithPadding(tokenizer=tokenizer) *)
DataCollatorWithPadding(tok) == [tokenizer |-> tok]

(* lines 217-224 and 406-413 *)
Trainer(model, args, tokenized_dataset, tok, data_collator) ==
  [model |-> model,
   args |-> args,
   train_dataset |-> tokenized_dataset["train"],
   eval_dataset |-> tokenized_dataset["test"],
   tokenizer |-> tok,
   data_collator |-> data_collator]

(* The model after trainer.train(): trained on the train dataset under args *)
TrainedModel(trainer) ==
  [trainer.model EXCEPT !.trained =
     Append(@, [epochs |-> trainer.args.num_train_epochs,
                batch_size |-> trainer.args.per_device_train_batch_size,
                rows |-> Len(trainer.train_dataset)])]

----------------------------------------------------------------------------
(* Files: fs is the sequence of writes and removals, oldest first *)

(* trainer.train() writes its checkpoints and logs under args.output_dir *)
CheckpointWrite(trainer) ==
  [op |-> "checkpoint", path |-> trainer.args.output_dir, content |-> None]

(* save_model that ignores its output_dir argument *)
SaveModelDirIgnoringArg(trainer, output_dir) == trainer.args.output_dir

(* trainer.save_model(output_dir=None): output_dir defaults to args.output_dir *)
SaveModelDir(trainer, output_dir) ==
  IF output_dir = <<>> THEN trainer.args.output_dir ELSE output_dir

SaveModel(trainer, output_dir) ==
  [op |-> "save_model", path |-> SaveModelDir(trainer, output_dir),
   content |-> trainer.model]

(* trainer.save_state() writes trainer_state.json under args.output_dir *)
SaveState(trainer) ==
  [op |-> "save_state", path |-> trainer.args.output_dir, content |-> None]

(* tempfile.TemporaryDirectory() creates the temporary directory *)
MakeDir(root) == [op |-> "mkdir", path |-> root, content |-> None]

(* tmpdir.cleanup() removes the temporary directory *)
RemoveTree(root) == [op |-> "rmtree", path |-> root, content |-> None]

(* f"{DA.paths.working_dir}/llm04_fine_tuning/{checkpoint_name}" *)
FinalModelPath(working_dir, checkpoint_name) ==
  PathJoin(PathJoin(working_dir, "llm04_fine_tuning"), checkpoint_name)

(* A write, tagged with the command that made it *)
WrittenBy(label, write) == write @@ [by |-> label]

(* The last model saved at path *)
SavedAt(files, path) ==
  LET at == {i \in 1..Len(files) : files[i].op = "save_model" /\ files[i].path = path}
  IN IF at = {} THEN None
     ELSE files[CHOOSE i \in at : \A j \in at : j <= i].content

(* AutoModelForSeq2SeqLM.from_pretrained(path) *)
AutoModelFromPath(files, path) ==
  LET saved == SavedAt(files, path)
  IN [checkpoint |-> saved.checkpoint, loaded_from |-> path, trained |-> saved.trained]

----------------------------------------------------------------------------
(* Prediction *)

(* fine_tuned_model.generate(input_ids=..., attention_mask=...): one *)
(* generated sequence per input row                                   *)
Generate(model, input_ids, attention_mask) ==
  [i \in 1..Len(input_ids) |-> [generated_by |-> model, from |-> input_ids[i]]]

(* Python's zip: pairs up to the shorter argument *)
Zip(a, b) == [i \in 1..Min(Len(a), Len(b)) |-> <<a[i], b[i]>>]

(* pd.DataFrame(zip(...), columns=["review", "classification"]) *)
DataFrame(pairs) ==
  [i \in 1..Len(pairs) |-> [review |-> pairs[i][1], classification |-> pairs[i][2]]]

(* lines 295-298 and 460-463 *)
PredictionFrame(reviews, tok, pred) == DataFrame(Zip(reviews, BatchDecode(tok, pred)))

----------------------------------------------------------------------------
(* Initial state: nothing has run; the notebook's names are unbound *)

UnboundNames ==
  [working_dir |-> <<>>,
   local_training_root |-> <<>>,
   imdb_ds |-> None,
   model_checkpoint |-> Unset,
   tokenizer |-> None,
   imdb_to_tokens |-> None,
   tokenized_dataset |-> None,
   checkpoint_name |-> Unset,
   local_checkpoint_path |-> <<>>,
   checkpoint_location |-> <<>>,
   training_args |-> None,
   model |-> None,
   data_collator |-> None,
   trainer |-> None,
   tensorboard_display_dir |-> <<>>,
   final_model_path |-> <<>>,
   fine_tuned_model |-> None,
   reviews |-> <<>>,
   review |-> <<>>,
   inputs |-> None,
   pred |-> <<>>,
   pdf |-> <<>>,
   zero_config |-> None]

Init ==
  /\ sparkVersion \in VersionStrings
  /\ environ \in {EmptyEnv, PresetEnv}
  /\ pc = Program[1]
  /\ raised = "none"
  /\ done = <<>>
  /\ nb = UnboundNames
  /\ fs = <<>>
  /\ applyCalls = <<>>
  /\ argsBuilt = <<>>
  /\ trainersBuilt = <<>>
  /\ displayed = <<>>

(* The command at label completes and the run moves to the next command *)
Ran(label) ==
  /\ pc = label
  /\ pc' = NextPc(label)
  /\ done' = Append(done, label)
  /\ raised' = raised

(* An exception that is swallowed: the run goes on with the next command *)
HaltAndContinue(label) ==
  /\ pc = label
  /\ pc' = NextPc(label)
  /\ raised' = label
  /\ done' = done

(* The command at label raises: the run stops there *)
Halt(label) ==
  /\ pc = label
  /\ pc' = "halted"
  /\ raised' = label
  /\ done' = done

----------------------------------------------------------------------------
(* Setup commands *)

(* line 34 *)
GpuAssert ==
  /\ pc = "gpu_assert"
  /\ IF GpuRuntime(sparkVersion) THEN Ran("gpu_assert") ELSE Halt("gpu_assert")
  /\ UNCHANGED <<sparkVersion, environ, nb, fs, applyCalls, argsBuilt,
                 trainersBuilt, displayed>>

(* lines 49-78: install the dependencies and run Classroom-Setup, which *)
(* binds DA                                                             *)
ClassroomSetup ==
  /\ Ran("classroom_setup")
  /\ nb' = [nb EXCEPT !.working_dir = WorkingDir]
  /\ UNCHANGED <<sparkVersion, environ, fs, applyCalls, argsBuilt,
                 trainersBuilt, displayed>>

(* lines 87-90 *)
TmpDir ==
  /\ Ran("tmpdir")
  /\ nb' = [nb EXCEPT !.local_training_root = TmpDirName]
  /\ fs' = Append(fs, WrittenBy("tmpdir", MakeDir(TmpDirName)))
  /\ UNCHANGED <<sparkVersion, environ, applyCalls, argsBuilt,
                 trainersBuilt, displayed>>

(* lines 99-102 *)
Imports ==
  /\ Ran("imports")
  /\ UNCHANGED <<sparkVersion, environ, nb, fs, applyCalls, argsBuilt,
                 trainersBuilt, displayed>>

(* line 115 *)
LoadDataset ==
  /\ Ran("load_dataset")
  /\ \E ds \in ImdbDatasets : nb' = [nb EXCEPT !.imdb_ds = ds]
  /\ UNCHANGED <<sparkVersion, environ, fs, applyCalls, argsBuilt,
                 trainersBuilt, displayed>>

----------------------------------------------------------------------------
(* Commands the two passes share in shape *)

(* tokenizer = tr.AutoTokenizer.from_pretrained(model_checkpoint, ...) *)
LoadTokenizer(label, names) ==
  /\ Ran(label)
  /\ nb' = [names EXCEPT !.tokenizer = AutoTokenizer(names.model_checkpoint, DatasetsDir)]
  /\ UNCHANGED <<sparkVersion, environ, fs, applyCalls, argsBuilt,
                 trainersBuilt, displayed>>

(* imdb_to_tokens = to_tokens(tokenizer, imdb_label_lookup)           *)
(* tokenized_dataset = imdb_ds.map(imdb_to_tokens, batched=True, ...) *)
MapTokenize(label) ==
  /\ Ran(label)
  /\ LET closure == to_tokens(nb.tokenizer, imdb_label_lookup)
     IN /\ nb' = [nb EXCEPT !.imdb_to_tokens = closure,
                            !.tokenized_dataset = TokenizedDataset(nb.imdb_ds, closure)]
        /\ applyCalls' = applyCalls \o ApplyCallsOf(nb.imdb_ds, closure)
  /\ UNCHANGED <<sparkVersion, environ, fs, argsBuilt, trainersBuilt, displayed>>

(* model = tr.AutoModelForSeq2SeqLM.from_pretrained(model_checkpoint, ...) *)
LoadModel(label) ==
  /\ Ran(label)
  /\ nb' = [nb EXCEPT !.model = AutoModelFromHub(nb.model_checkpoint, DatasetsDir)]
  /\ UNCHANGED <<sparkVersion, environ, fs, applyCalls, argsBuilt,
                 trainersBuilt, displayed>>

(* data_collator = ...; trainer = tr.Trainer(model, training_args, ...) *)
MakeTrainer(label) ==
  /\ Ran(label)
  /\ LET collator == DataCollatorWithPadding(nb.tokenizer)
         t == Trainer(nb.model, nb.training_args, nb.tokenized_dataset,
                      nb.tokenizer, collator)
     IN /\ nb' = [nb EXCEPT !.data_collator = collator, !.trainer = t]
        /\ trainersBuilt' = Append(trainersBuilt, t)
  /\ UNCHANGED <<sparkVersion, environ, fs, applyCalls, argsBuilt, displayed>>

(* trainer.train(): the trainer's model, which is the object bound to *)
(* model, is trained in place                                          *)
Train(label) ==
  /\ Ran(label)
  /\ LET m == TrainedModel(nb.trainer)
     IN nb' = [nb EXCEPT !.trainer.model = m, !.model = m]
  /\ fs' = Append(fs, WrittenBy(label, CheckpointWrite(nb.trainer)))
  /\ UNCHANGED <<sparkVersion, environ, applyCalls, argsBuilt,
                 trainersBuilt, displayed>>

(* trainer.save_model() *)
SaveLocal(label) ==
  /\ Ran(label)
  /\ fs' = Append(fs, WrittenBy(label, SaveModel(nb.trainer, <<>>)))
  /\ UNCHANGED <<sparkVersion, environ, nb, applyCalls, argsBuilt,
                 trainersBuilt, displayed>>

(* trainer.save_state() *)
SaveTrainerState(label) ==
  /\ Ran(label)
  /\ fs' = Append(fs, WrittenBy(label, SaveState(nb.trainer)))
  /\ UNCHANGED <<sparkVersion, environ, nb, applyCalls, argsBuilt,
                 trainersBuilt, displayed>>

(* final_model_path = f"..."; trainer.save_model(output_dir=final_model_path) *)
SaveFinal(label) ==
  /\ Ran(label)
  /\ LET path == FinalModelPath(nb.working_dir, nb.checkpoint_name)
     IN /\ nb' = [nb EXCEPT !.final_model_path = path]
        /\ fs' = Append(fs, WrittenBy(label, SaveModel(nb.trainer, path)))
  /\ UNCHANGED <<sparkVersion, environ, applyCalls, argsBuilt,
                 trainersBuilt, displayed>>

(* fine_tuned_model = tr.AutoModelForSeq2SeqLM.from_pretrained(final_model_path) *)
(* raises when nothing was saved at the path                                     *)
Reload(label) ==
  /\ pc = label
  /\ IF SavedAt(fs, nb.final_model_path) = None
     THEN Halt(label) /\ nb' = nb
     ELSE /\ Ran(label)
          /\ nb' = [nb EXCEPT !.fine_tuned_model =
                                 AutoModelFromPath(fs, nb.final_model_path)]
  /\ UNCHANGED <<sparkVersion, environ, fs, applyCalls, argsBuilt,
                 trainersBuilt, displayed>>

----------------------------------------------------------------------------
(* First pass: fine-tuning t5-small *)

(* line 128 *)
ModelCheckpoint1 ==
  /\ Ran("model_checkpoint_1")
  /\ nb' = [nb EXCEPT !.model_checkpoint = "t5-small"]
  /\ UNCHANGED <<sparkVersion, environ, fs, applyCalls, argsBuilt,
                 trainersBuilt, displayed>>

(* lines 138-140 *)
LoadTokenizer1 == LoadTokenizer("load_tokenizer_1", nb)

(* lines 177-180 *)
MapTokenize1 == MapTokenize("map_1")

(* lines 191-199 *)
MakeTrainingArgs1 ==
  /\ Ran("training_args_1")
  /\ LET name == "test-trainer"
         path == PathJoin(nb.local_training_root, name)
         args == TrainingArgs1(path)
     IN /\ nb' = [nb EXCEPT !.checkpoint_name = name,
                            !.local_checkpoint_path = path,
                            !.training_args = args]
        /\ argsBuilt' = Append(argsBuilt, args)
  /\ UNCHANGED <<sparkVersion, environ, fs, applyCalls, trainersBuilt, displayed>>

(* lines 209-211 *)
LoadModel1 == LoadModel("load_model_1")

(* lines 216-224 *)
MakeTrainer1 == MakeTrainer("trainer_1")

(* lines 239-244 *)
Tensorboard1 ==
  /\ Ran("tensorboard_1")
  /\ nb' = [nb EXCEPT !.tensorboard_display_dir =
                         PathJoin(nb.local_checkpoint_path, "runs")]
  /\ UNCHANGED <<sparkVersion, environ, fs, applyCalls, argsBuilt,
                 trainersBuilt, displayed>>

(* line 253 *)
Train1 == Train("train_1")

(* line 256 *)
SaveLocal1 == SaveLocal("save_model_1")

(* line 257 *)
SaveTrainerState1 == SaveTrainerState("save_state_1")

(* lines 262-263 *)
SaveFinal1 == SaveFinal("save_final_1")

(* line 272 *)
Reload1 == Reload("reload_1")

(* lines 276-291 *)
Predict1 ==
  /\ Ran("predict_1")
  /\ LET inputs == Tokenize(nb.tokenizer, reviews_literal)
     IN nb' = [nb EXCEPT !.reviews = reviews_literal,
                         !.inputs = inputs,
                         !.pred = Generate(nb.fine_tuned_model, inputs.input_ids,
                                           inputs.attention_mask)]
  /\ UNCHANGED <<sparkVersion, environ, fs, applyCalls, argsBuilt,
                 trainersBuilt, displayed>>

(* lines 295-299 *)
Display1 ==
  /\ Ran("display_1")
  /\ LET pdf == PredictionFrame(nb.reviews, nb.tokenizer, nb.pred)
     IN /\ nb' = [nb EXCEPT !.pdf = pdf]
        /\ displayed' = Append(displayed, pdf)
  /\ UNCHANGED <<sparkVersion, environ, fs, applyCalls, argsBuilt, trainersBuilt>>

----------------------------------------------------------------------------
(* DeepSpeed pass: fine-tuning t5-base *)

(* lines 323-327 *)
SetEnviron ==
  /\ Ran("environ")
  /\ environ' = EnvironSetup(environ)
  /\ UNCHANGED <<sparkVersion, nb, fs, applyCalls, argsBuilt,
                 trainersBuilt, displayed>>

(* lines 340-362 *)
SetZeroConfig ==
  /\ Ran("zero_config")
  /\ nb' = [nb EXCEPT !.zero_config = ZeroConfigDict]
  /\ UNCHANGED <<sparkVersion, environ, fs, applyCalls, argsBuilt,
                 trainersBuilt, displayed>>

(* lines 366-369 *)
LoadTokenizer2 ==
  LoadTokenizer("load_tokenizer_2", [nb EXCEPT !.model_checkpoint = "t5-base"])

(* The DeepSpeed pass without its own map: tokenized_dataset keeps the *)
(* first pass's binding                                                *)
MapTokenize2Stale ==
  /\ Ran("map_2")
  /\ UNCHANGED <<sparkVersion, environ, nb, fs, applyCalls, argsBuilt,
                 trainersBuilt, displayed>>

(* lines 371-374 *)
MapTokenize2 == MapTokenize("map_2")

(* lines 376-378 *)
LoadModel2 == LoadModel("load_model_2")

(* lines 395-403 *)
MakeTrainingArgs2 ==
  /\ Ran("training_args_2")
  /\ LET name == "test-trainer-deepspeed"
         path == PathJoin(nb.local_training_root, name)
         args == TrainingArgs2(path, nb.zero_config)
     IN /\ nb' = [nb EXCEPT !.checkpoint_name = name,
                            !.checkpoint_location = path,
                            !.training_args = args]
        /\ argsBuilt' = Append(argsBuilt, args)
  /\ UNCHANGED <<sparkVersion, environ, fs, applyCalls, trainersBuilt, displayed>>

(* lines 405-413 *)
MakeTrainer2 == MakeTrainer("trainer_2")

(* lines 417-422 *)
Tensorboard2 ==
  /\ Ran("tensorboard_2")
  /\ nb' = [nb EXCEPT !.tensorboard_display_dir =
                         PathJoin(nb.checkpoint_location, "runs")]
  /\ UNCHANGED <<sparkVersion, environ, fs, applyCalls, argsBuilt,
                 trainersBuilt, displayed>>

(* line 426 *)
Train2 == Train("train_2")

(* line 428 *)
SaveLocal2 == SaveLocal("save_model_2")

(* line 429 *)
SaveTrainerState2 == SaveTrainerState("save_state_2")

(* lines 434-435 *)
SaveFinal2 == SaveFinal("save_final_2")

(* line 444 *)
Reload2 == Reload("reload_2")

(* lines 448-456 *)
Predict2 ==
  /\ Ran("predict_2")
  /\ LET inputs == Tokenize(nb.tokenizer, review_literal)
     IN nb' = [nb EXCEPT !.review = review_literal,
                         !.inputs = inputs,
                         !.pred = Generate(nb.fine_tuned_model, inputs.input_ids,
                                           inputs.attention_mask)]
  /\ UNCHANGED <<sparkVersion, environ, fs, applyCalls, argsBuilt,
                 trainersBuilt, displayed>>

(* The second table zipped with the first pass's reviews *)
Display2WithReviews ==
  /\ Ran("display_2")
  /\ LET pdf == PredictionFrame(nb.reviews, nb.tokenizer, nb.pred)
     IN /\ nb' = [nb EXCEPT !.pdf = pdf]
        /\ displayed' = Append(displayed, pdf)
  /\ UNCHANGED <<sparkVersion, environ, fs, applyCalls, argsBuilt, trainersBuilt>>

(* lines 460-464 *)
Display2 ==
  /\ Ran("display_2")
  /\ LET pdf == PredictionFrame(nb.review, nb.tokenizer, nb.pred)
     IN /\ nb' = [nb EXCEPT !.pdf = pdf]
        /\ displayed' = Append(displayed, pdf)
  /\ UNCHANGED <<sparkVersion, environ, fs, applyCalls, argsBuilt, trainersBuilt>>

(* line 476 *)
Cleanup ==
  /\ Ran("cleanup")
  /\ fs' = Append(fs, WrittenBy("cleanup", RemoveTree(nb.local_training_root)))
  /\ UNCHANGED <<sparkVersion, environ, nb, applyCalls, argsBuilt,
                 trainersBuilt, displayed>>

----------------------------------------------------------------------------
(* A command that calls into a library or the file system raises.  Nothing *)
(* in the notebook catches it: the run stops at that command.  A train     *)
(* that raises may already have written checkpoints.                       *)

Raise ==
  /\ pc \in {Program[i] : i \in 1..Len(Program)} \ NonRaising
  /\ Halt(pc)
  /\ \E partial \in BOOLEAN :
       fs' = IF partial /\ pc \in {"train_1", "train_2"}
             THEN Append(fs, WrittenBy(pc, CheckpointWrite(nb.trainer)))
             ELSE fs
  /\ UNCHANGED <<sparkVersion, environ, nb, applyCalls, argsBuilt,
                 trainersBuilt, displayed>>

Next ==
  \/ GpuAssert \/ ClassroomSetup \/ TmpDir \/ Imports \/ LoadDataset
  \/ ModelCheckpoint1 \/ LoadTokenizer1 \/ MapTokenize1 \/ MakeTrainingArgs1
  \/ LoadModel1 \/ MakeTrainer1 \/ Tensorboard1
  \/ Train1 \/ SaveLocal1 \/ SaveTrainerState1 \/ SaveFinal1
  \/ Reload1 \/ Predict1 \/ Display1
  \/ SetEnviron \/ SetZeroConfig
  \/ LoadTokenizer2 \/ MapTokenize2 \/ LoadModel2
  \/ MakeTrainingArgs2 \/ MakeTrainer2 \/ Tensorboard2
  \/ Train2 \/ SaveLocal2 \/ SaveTrainerState2 \/ SaveFinal2
  \/ Reload2 \/ Predict2 \/ Display2
  \/ Cleanup
  \/ Raise

Spec == Init /\ [][Next]_vars

TypeOK ==
  /\ pc \in {Program[i] : i \in 1..Len(Program)} \cup {"end", "halted"}
  /\ raised \in {Program[i] : i \in 1..Len(Program)} \cup {"none"}
  /\ Len(done) <= Len(Program)

----------------------------------------------------------------------------
(* Properties *)

HasRun(label) == \E i \in 1..Len(done) : done[i] = label

(* a ran, and ran before b, whenever b ran *)
RanBefore(a, b) ==
  HasRun(b) => /\ HasRun(a)
               /\ PosIn(done, a) < PosIn(done, b)

(* every command of order ran only after all the commands before it in *)
(* order: those that ran are, in the order they ran, a prefix of order  *)
RanInOrder(order) ==
  LET ran == SelectSeq(done, LAMBDA c : \E i \in 1..Len(order) : order[i] = c)
  IN /\ Len(ran) <= Len(order)
     /\ ran = SubSeq(order, 1, Len(ran))

(* the version string has the letters g, p, u in a row *)
HasGpu(version) ==
  \E i \in 1..Len(version) :
    /\ i + 2 <= Len(version)
    /\ version[i] = "g" /\ version[i + 1] = "p" /\ version[i + 2] = "u"

(* C1: when the runtime version string does not contain "gpu" the run halts *)
(* at the assertion and no command has any effect: nothing has run, no name *)
(* is bound, no file is written, the environment is untouched.  When it     *)
(* contains "gpu" the assertion never stops the run and is the first        *)
(* command completed.                                                       *)
C1_GpuGate ==
  /\ ~HasGpu(sparkVersion) =>
       /\ pc \in {"gpu_assert", "halted"}
       /\ pc = "halted" => raised = "gpu_assert"
       /\ done = <<>>
       /\ nb = UnboundNames
       /\ fs = <<>>
       /\ environ \in {EmptyEnv, PresetEnv}
       /\ displayed = <<>>
  /\ HasGpu(sparkVersion) =>
       /\ raised # "gpu_assert"
       /\ pc # "gpu_assert" => (done # <<>> /\ done[1] = "gpu_assert")

C1_Witness ==
  /\ ~HasGpu(sparkVersion)
  /\ Len(sparkVersion) = 3
  /\ pc = "halted"
  /\ raised = "gpu_assert"

(* The order of steps the specification gives, for one pass *)
ClaimedOrder(p) ==
  IF p = 1
  THEN <<"load_dataset", "load_tokenizer_1", "map_1", "training_args_1",
         "load_model_1", "trainer_1", "train_1", "save_model_1", "save_state_1",
         "save_final_1", "reload_1", "predict_1", "display_1">>
  ELSE <<"load_dataset", "load_tokenizer_2", "map_2", "training_args_2",
         "load_model_2", "trainer_2", "train_2", "save_model_2", "save_state_2",
         "save_final_2", "reload_2", "predict_2", "display_2">>

(* The order of the DeepSpeed pass with the model constructed before the *)
(* training configuration                                                *)
DeepSpeedOrder ==
  <<"load_dataset", "load_tokenizer_2", "map_2", "load_model_2",
    "training_args_2", "trainer_2", "train_2", "save_model_2", "save_state_2",
    "save_final_2", "reload_2", "predict_2", "display_2">>

(* C2 as stated: in both passes every step runs only after all of its      *)
(* predecessors in the order load dataset, load tokenizer, map, training   *)
(* configuration, model, trainer, train, save, reload, predict, display.   *)
C2_ClaimedOrderBothPasses == RanInOrder(ClaimedOrder(1)) /\ RanInOrder(ClaimedOrder(2))

(* C2 amended: the first pass runs in the stated order; the DeepSpeed pass *)
(* runs in the same order except that its model is constructed before its  *)
(* training configuration, and it reuses the dataset loaded by the first   *)
(* pass; the whole first pass precedes the DeepSpeed pass.                 *)
C2_Order ==
  /\ RanInOrder(ClaimedOrder(1))
  /\ RanInOrder(DeepSpeedOrder)
  /\ RanBefore("display_1", "load_tokenizer_2")

C2_Witness == HasRun("display_2") /\ HasRun("display_1")

(* The string the notebook's text assigns to a label id *)
LabelText(id) ==
  CASE id = 0 -> "negative"
    [] id = 1 -> "positive"
    [] id = -1 -> "unknown"

(* C3: for every batch handed to apply, the target texts given to the       *)
(* tokenizer are as many as the labels and in their order, the i-th being   *)
(* "negative" for 0, "positive" for 1 and "unknown" for -1; the encoded     *)
(* targets of the tokenized dataset are those of each raw row's own label.  *)
C3_LabelTranslation ==
  /\ \A k \in 1..Len(applyCalls) :
       /\ Len(applyCalls[k].text_target) = Len(applyCalls[k].label)
       /\ \A i \in 1..Len(applyCalls[k].label) :
            applyCalls[k].text_target[i] = LabelText(applyCalls[k].label[i])
  /\ HasRun("map_1") =>
       \A s \in DOMAIN nb.imdb_ds :
         \A i \in 1..Len(nb.imdb_ds[s]) :
           /\ i <= Len(nb.tokenized_dataset[s])
           /\ nb.tokenized_dataset[s][i].labels.of = LabelText(nb.imdb_ds[s][i].label)

C3_Witness ==
  /\ HasRun("map_2")
  /\ \E k \in 1..Len(applyCalls) :
       /\ Len(applyCalls[k].label) = 2
       /\ applyCalls[k].label[1] = 1
       /\ applyCalls[k].label[2] = 0
  /\ \E k \in 1..Len(applyCalls) : applyCalls[k].label[1] = -1

(* The writes made by the command label, as positions in fs *)
WritesBy(label) == {i \in 1..Len(fs) : fs[i].by = label}

(* The split a tokenized dataset was made from *)
SplitOf(rows) == rows[1].input_ids.of.split

(* C4: the training setup of the DeepSpeed pass differs from the first      *)
(* pass's only in the checkpoint name and the added deepspeed               *)
(* configuration: epochs, per-device batch size, optimizer, report target,  *)
(* the splits given to the trainer and the collator's kind are the same.    *)
C4_OnlyTwoChanges ==
  /\ Len(argsBuilt) = 2 =>
       /\ argsBuilt[1].num_train_epochs = argsBuilt[2].num_train_epochs
       /\ argsBuilt[1].per_device_train_batch_size =
            argsBuilt[2].per_device_train_batch_size
       /\ argsBuilt[1].optim = argsBuilt[2].optim
       /\ argsBuilt[1].report_to = argsBuilt[2].report_to
       /\ argsBuilt[1].output_dir # argsBuilt[2].output_dir
       /\ argsBuilt[1].deepspeed # argsBuilt[2].deepspeed
  /\ Len(trainersBuilt) = 2 =>
       /\ SplitOf(trainersBuilt[1].train_dataset) = SplitOf(trainersBuilt[2].train_dataset)
       /\ SplitOf(trainersBuilt[1].eval_dataset) = SplitOf(trainersBuilt[2].eval_dataset)
       /\ DOMAIN trainersBuilt[1].data_collator = DOMAIN trainersBuilt[2].data_collator

(* C5: in both passes the writes of train, save_model() and save_state()    *)
(* go under the local temporary root and not under the working directory;   *)
(* the final save goes under the working directory, outside the temporary   *)
(* root, after all of those writes; the fine-tuned model is the one loaded  *)
(* from the path of the latest final save.                                  *)
C5_LocalThenPersistent ==
  /\ \A p \in {"1", "2"} :
       LET local == WritesBy("train_" \o p) \cup WritesBy("save_model_" \o p)
                      \cup WritesBy("save_state_" \o p)
           final == WritesBy("save_final_" \o p)
       IN /\ \A i \in local :
               /\ IsUnder(fs[i].path, nb.local_training_root)
               /\ ~IsUnder(fs[i].path, nb.working_dir)
          /\ \A i \in final :
               /\ IsUnder(fs[i].path, nb.working_dir)
               /\ ~IsUnder(fs[i].path, nb.local_training_root)
               /\ \A c \in {"train_" \o p, "save_model_" \o p, "save_state_" \o p} :
                    \E j \in WritesBy(c) : j < i
               /\ \A j \in local : j < i
  /\ nb.fine_tuned_model # None =>
       /\ IsUnder(nb.fine_tuned_model.loaded_from, nb.working_dir)
       /\ ~IsUnder(nb.fine_tuned_model.loaded_from, nb.local_training_root)
       /\ \E i \in WritesBy("save_final_1") \cup WritesBy("save_final_2") :
            /\ fs[i].path = nb.fine_tuned_model.loaded_from
            /\ fs[i].content.checkpoint = nb.fine_tuned_model.checkpoint
            /\ fs[i].content.trained = nb.fine_tuned_model.trained
  /\ \A p \in {"1", "2"} :
       (HasRun("reload_" \o p) /\ (p = "1" => ~HasRun("reload_2"))) =>
         \E i \in WritesBy("save_final_" \o p) :
           fs[i].path = nb.fine_tuned_model.loaded_from

C5_Witness ==
  /\ HasRun("predict_2")
  /\ WritesBy("save_model_1") # {}
  /\ WritesBy("save_final_2") # {}

(* The environment describes one node: a world of one process of rank 0 *)
SingleNode(env) ==
  /\ EnvInt(env.WORLD_SIZE) = 1
  /\ EnvInt(env.RANK) = 0
  /\ EnvInt(env.LOCAL_RANK) = 0
  /\ 0 <= EnvInt(env.RANK) /\ EnvInt(env.RANK) < EnvInt(env.WORLD_SIZE)
  /\ env.MASTER_ADDR # Unset
  /\ env.MASTER_PORT # Unset

(* C6: once the environment setup has run the five variables describe a  *)
(* single node; it has run before the DeepSpeed training arguments and   *)
(* trainer are constructed and before the DeepSpeed train; no later step *)
(* changes the environment.                                              *)
C6_SingleNodeEnviron ==
  /\ [](/\ HasRun("environ") => SingleNode(environ)
        /\ pc \in {"training_args_2", "trainer_2", "train_2"} =>
             (HasRun("environ") /\ SingleNode(environ))
        /\ (HasRun("training_args_2") \/ HasRun("trainer_2") \/ HasRun("train_2")) =>
             RanBefore("environ", "training_args_2"))
  /\ [][HasRun("environ") => environ' = environ]_vars

C6_Witness ==
  /\ HasRun("train_2")
  /\ SingleNode(environ)
  /\ environ.MASTER_ADDR = "localhost"

(* C7: a command that raised is not run again and nothing runs after it:   *)
(* the run is halted with exactly the commands before it completed.  After *)
(* a failed train of a pass there is no save, reload or prediction of that *)
(* pass.                                                                   *)
C7_NoRetryNoRecovery ==
  /\ raised # "none" =>
       /\ pc = "halted"
       /\ ~HasRun(raised)
       /\ Len(done) < Len(Program)
       /\ \A i \in 1..Len(done) : done[i] = Program[i]
       /\ Program[Len(done) + 1] = raised
  /\ raised = "train_1" =>
       /\ \A i \in 1..Len(fs) : fs[i].op \notin {"save_model", "save_state"}
       /\ nb.fine_tuned_model = None
       /\ nb.pred = <<>>
       /\ displayed = <<>>
  /\ raised = "train_2" =>
       /\ \A i \in 1..Len(fs) :
            fs[i].by \notin {"save_model_2", "save_state_2", "save_final_2"}
       /\ nb.fine_tuned_model.checkpoint = "t5-small"
       /\ Len(displayed) = 1
  /\ pc = "halted" => raised # "none"

C7_Witness ==
  /\ raised = "train_2"
  /\ WritesBy("train_2") # {}

(* C8: the DeepSpeed configuration selects ZeRO stage 2, offloads the    *)
(* optimizer to the cpu, uses one bucket size for all-gather and reduce, *)
(* selects AdamW with lr, betas, eps, weight_decay and train_batch_size  *)
(* all "auto"; it is the deepspeed argument of the second training       *)
(* arguments, and the first are built without a deepspeed configuration. *)
C8_ZeroConfig ==
  /\ HasRun("zero_config") =>
       /\ nb.zero_config.zero_optimization.stage = 2
       /\ nb.zero_config.zero_optimization.offload_optimizer.device = "cpu"
       /\ nb.zero_config.zero_optimization.allgather_bucket_size =
            nb.zero_config.zero_optimization.reduce_bucket_size
       /\ nb.zero_config.optimizer.type = "AdamW"
       /\ \A h \in {"lr", "betas", "eps", "weight_decay"} :
            nb.zero_config.optimizer.params[h] = "auto"
       /\ nb.zero_config.train_batch_size = "auto"
  /\ Len(argsBuilt) >= 1 => argsBuilt[1].deepspeed = None
  /\ HasRun("training_args_1") => Len(argsBuilt) >= 1
  /\ HasRun("training_args_2") =>
       /\ Len(argsBuilt) = 2
       /\ argsBuilt[2].deepspeed = nb.zero_config
       /\ argsBuilt[2].deepspeed # None
       /\ nb.training_args = argsBuilt[2]
  /\ \A k \in 1..Len(trainersBuilt) : trainersBuilt[k].args = argsBuilt[k]

C8_Witness ==
  /\ HasRun("train_2")
  /\ nb.trainer.args.deepspeed = nb.zero_config
  /\ nb.zero_config.zero_optimization.stage = 2

(* The columns a tokenized row holds *)
TokenizedColumns == {"input_ids", "attention_mask", "labels"}

(* rows is the tokenization of every row of the raw split, in order *)
TokenizationOf(rows, split) ==
  /\ Len(rows) = Len(nb.imdb_ds[split])
  /\ \A i \in 1..Len(rows) :
       /\ DOMAIN rows[i] = TokenizedColumns
       /\ rows[i].input_ids.of = nb.imdb_ds[split][i].text

(* C9: after the map every split of the tokenized dataset has as many rows *)
(* as the raw split, holds neither "text" nor "label" and holds the input  *)
(* ids, attention mask and tokenized target labels; each trainer trains on *)
(* the train split and evaluates on the test split and holds no other.     *)
C9_TokenizedSplits ==
  /\ HasRun("map_1") =>
       /\ DOMAIN nb.tokenized_dataset = DOMAIN nb.imdb_ds
       /\ \A s \in DOMAIN nb.imdb_ds : TokenizationOf(nb.tokenized_dataset[s], s)
  /\ \A k \in 1..Len(trainersBuilt) :
       /\ TokenizationOf(trainersBuilt[k].train_dataset, "train")
       /\ TokenizationOf(trainersBuilt[k].eval_dataset, "test")
       /\ DOMAIN trainersBuilt[k] =
            {"model", "args", "train_dataset", "eval_dataset", "tokenizer",
             "data_collator"}
       /\ \A i \in 1..Len(trainersBuilt[k].train_dataset) :
            trainersBuilt[k].train_dataset[i].input_ids.of.split = "train"
       /\ \A i \in 1..Len(trainersBuilt[k].eval_dataset) :
            trainersBuilt[k].eval_dataset[i].input_ids.of.split = "test"
  /\ HasRun("trainer_1") => Len(trainersBuilt) >= 1
  /\ HasRun("trainer_2") => Len(trainersBuilt) = 2

C9_Witness ==
  /\ HasRun("trainer_2")
  /\ Len(nb.imdb_ds.train) # Len(nb.imdb_ds.test)
  /\ Len(nb.tokenized_dataset.unsupervised) = 2
  /\ Len(nb.tokenized_dataset.train) > MapBatchSize

(* table pairs every review of reviews, in order, with the decoded *)
(* generation for that review                                      *)
PairsEachReview(table, reviews) ==
  /\ Len(table) = Len(reviews)
  /\ \A i \in 1..Len(table) :
       /\ table[i].review = reviews[i]
       /\ table[i].classification.sequence.from.of = reviews[i]

(* C10: each displayed table has one row per input review, in input order, *)
(* row i pairing the i-th review with the decoded generation for the i-th  *)
(* review: 4 rows in the first pass, 1 row in the DeepSpeed pass.          *)
C10_PredictionTable ==
  /\ Len(displayed) >= 1 =>
       /\ PairsEachReview(displayed[1], reviews_literal)
       /\ Len(displayed[1]) = 4
  /\ Len(displayed) >= 2 =>
       /\ PairsEachReview(displayed[2], review_literal)
       /\ Len(displayed[2]) = 1
  /\ HasRun("display_1") => (Len(displayed) >= 1 /\ nb.pdf = displayed[Len(displayed)])
  /\ HasRun("display_2") => Len(displayed) = 2

C10_Witness ==
  /\ HasRun("display_2")
  /\ Len(displayed[1]) = 4
  /\ Len(displayed[2]) = 1

(* The checkpoint name of a pass *)
PassCheckpoint(p) == IF p = 1 THEN "t5-small" ELSE "t5-base"

(* every row of a tokenized split was encoded with the tokenizer of ck *)
EncodedWith(rows, ck) ==
  \A i \in 1..Len(rows) :
    /\ rows[i].input_ids.vocab = ck
    /\ rows[i].labels.vocab = ck

(* the trainer's model, tokenizer, collator and datasets all derive from ck *)
TrainerDerivesFrom(t, ck) ==
  /\ t.model.checkpoint = ck
  /\ t.model.loaded_from = <<"hub", ck>>
  /\ t.tokenizer.checkpoint = ck
  /\ t.data_collator.tokenizer.checkpoint = ck
  /\ EncodedWith(t.train_dataset, ck)
  /\ EncodedWith(t.eval_dataset, ck)

(* every row of a displayed table was encoded, generated and decoded with *)
(* artefacts of ck                                                        *)
TableDerivesFrom(table, ck) ==
  \A i \in 1..Len(table) :
    /\ table[i].classification.decoded_with = ck
    /\ table[i].classification.sequence.generated_by.checkpoint = ck
    /\ table[i].classification.sequence.from.vocab = ck

(* C11: although the notebook's names are rebound between the passes, every *)
(* trainer is constructed from, every train call runs on and every          *)
(* prediction uses artefacts of one checkpoint only: the tokenizer that     *)
(* made the tokenized dataset, the tokenizer of the trainer and collator,   *)
(* the tokenizer that encodes and decodes the reviews and the model trained *)
(* or reloaded are all of t5-small in the first pass and all of t5-base in  *)
(* the DeepSpeed pass.                                                      *)
C11_OneCheckpointPerPass ==
  /\ \A p \in 1..Len(trainersBuilt) :
       TrainerDerivesFrom(trainersBuilt[p], PassCheckpoint(p))
  /\ \A p \in {1, 2} :
       LET ck == PassCheckpoint(p)
           n == IF p = 1 THEN "1" ELSE "2"
       IN /\ pc = "trainer_" \o n =>
               /\ nb.model_checkpoint = ck
               /\ nb.model.checkpoint = ck
               /\ nb.tokenizer.checkpoint = ck
               /\ nb.imdb_to_tokens.tokenizer.checkpoint = ck
               /\ EncodedWith(nb.tokenized_dataset["train"], ck)
               /\ EncodedWith(nb.tokenized_dataset["test"], ck)
          /\ pc \in {"train_" \o n, "save_model_" \o n, "save_state_" \o n,
                     "save_final_" \o n} =>
               /\ Len(trainersBuilt) = p
               /\ nb.trainer.args = trainersBuilt[p].args
               /\ TrainerDerivesFrom(nb.trainer, ck)
               /\ nb.model.checkpoint = ck
          /\ \A i \in 1..Len(fs) :
               fs[i].by \in {"save_model_" \o n, "save_final_" \o n} =>
                 fs[i].content.checkpoint = ck
          /\ pc \in {"predict_" \o n, "display_" \o n} =>
               /\ nb.fine_tuned_model.checkpoint = ck
               /\ nb.fine_tuned_model.trained # <<>>
               /\ nb.tokenizer.checkpoint = ck
          /\ pc = "display_" \o n =>
               /\ \A i \in 1..Len(nb.inputs.input_ids) : nb.inputs.input_ids[i].vocab = ck
               /\ \A i \in 1..Len(nb.pred) :
                    /\ nb.pred[i].generated_by.checkpoint = ck
                    /\ nb.pred[i].from.vocab = ck
          /\ Len(displayed) >= p => TableDerivesFrom(displayed[p], ck)

C11_Witness ==
  /\ HasRun("display_2")
  /\ Len(trainersBuilt) = 2
  /\ trainersBuilt[1].tokenizer.checkpoint = "t5-small"
  /\ trainersBuilt[2].tokenizer.checkpoint = "t5-base"
  /\ displayed[1][1].classification.decoded_with = "t5-small"
  /\ displayed[2][1].classification.decoded_with = "t5-base"

====
